---- MODULE Spec2Model ----
(***************************************************************************)
(* ShoreSquad (src/js/app.js, the application that starts at line 441):   *)
(* the appState store, the Leaflet map with its layers, the rendered       *)
(* event list, the three weather panels, and the handlers that change      *)
(* them.  Every handler runs to completion (one action per handler); the   *)
(* only suspension points are the two awaits of loadWeather and the        *)
(* geolocation callbacks.                                                  *)
(*                                                                         *)
(* Conventions.  A JavaScript null/undefined reference is the empty tuple  *)
(* NULL and a present value v is <<v>>.  Coordinates are integers in       *)
(* units of 1e-6 degree.  The id string `event-${n}` is the pair           *)
(* <<"event-", n>> (the template is injective in n).  A field that an      *)
(* object literal does not set reads as the string "undefined", which is   *)
(* what the templates print for it.                                        *)
(***************************************************************************)
EXTENDS Integers, Sequences, FiniteSets, Bags, TLC

\* ------------------------------------------------------------------ bounds
MaxJoins == 1
MaxCreated == 2
MaxTicks == 1
MaxPending == 1
MaxForecasts == 5
MaxCleanupJoins == 1

\* ------------------------------------------------------- program constants
WindThreshold == 10
WaterOffset == 2
ForecastDays == 4
FallbackCurrentTemp == 22
FallbackWaterTemp == 20

NULL == <<>>
Some(v) == <<v>>
Val(o) == o[1]

VARIABLES
    pc,            \* "loading" before DOMContentLoaded, then "ready"
    map,           \* appState.map
    layers,        \* event markers that are on the Leaflet map (a bag)
    userLayers,    \* user markers that are on the Leaflet map (a bag)
    mapEl,         \* content of the #map element
    userLocation,  \* appState.userLocation
    userMarker,    \* appState.userMarker
    crews,         \* appState.crews
    events,        \* appState.events
    markers,       \* appState.markers
    eventsList,    \* #eventsList as rendered
    wpc,           \* where loadWeather is: "idle", "fetch", "json", "done"
    weatherInfo,   \* #weatherInfo as rendered
    forecastInfo,  \* #forecastInfo as rendered
    waterInfo,     \* #waterInfo as rendered
    geolocation,   \* navigator.geolocation is available
    geoPending,    \* getCurrentPosition requests without a reply yet
    now,           \* the latest reading of Date.now()
    crewSection,   \* #crewList and the three counters as rendered
    nextCleanupParticipants,  \* appState.nextCleanupParticipants
    last           \* what the most recent handler did that the user sees

vars == <<pc, map, layers, userLayers, mapEl, userLocation, userMarker, crews,
          events, markers, eventsList, wpc, weatherInfo, forecastInfo,
          waterInfo, geolocation, geoPending, now, crewSection,
          nextCleanupParticipants, last>>

mapVars == <<map, layers, userLayers, mapEl>>
storeVars == <<userLocation, userMarker, crews, events, markers>>
weatherVars == <<wpc, weatherInfo, forecastInfo, waterInfo>>
asideVars == <<crewSection, nextCleanupParticipants>>

\* the readings of Date.now() within the session (milliseconds, from an
\* initial reading of 1000)
ClockValues == 1000..(1000 + MaxTicks)

\* ------------------------------------------------------------ 450-465 state
defaultLocation == [lat |-> 40712800, lng |-> -74006000]

EventId(n) == <<"event-", n>>

\* 813-856
MockCrews ==
    << [id |-> 1, name |-> "Alex", avatar |-> "man-curly-hair",
        cleanups |-> 12, itemsCollected |-> 450],
       [id |-> 2, name |-> "Jordan", avatar |-> "woman-red-hair",
        cleanups |-> 8, itemsCollected |-> 320],
       [id |-> 3, name |-> "Morgan", avatar |-> "person-white-hair",
        cleanups |-> 15, itemsCollected |-> 620],
       [id |-> 4, name |-> "Casey", avatar |-> "woman-curly-hair",
        cleanups |-> 10, itemsCollected |-> 380],
       [id |-> 5, name |-> "Riley", avatar |-> "man-bald",
        cleanups |-> 7, itemsCollected |-> 290] >>

MockEvents ==
    << [id |-> EventId(1), name |-> "Manhattan Beach Cleanup",
        lat |-> 40573100, lng |-> -73971200, date |-> "2025-12-10",
        time |-> "10:00 AM", participants |-> 24,
        description |-> "Help us clean Manhattan Beach!",
        creator |-> "undefined"],
       [id |-> EventId(2), name |-> "Coney Island Coastal Cleanup",
        lat |-> 40573100, lng |-> -73980800, date |-> "2025-12-15",
        time |-> "2:00 PM", participants |-> 18,
        description |-> "Join our Coney Island cleanup drive",
        creator |-> "undefined"],
       [id |-> EventId(3), name |-> "Rockaway Beach Restoration",
        lat |-> 40575500, lng |-> -73818500, date |-> "2025-12-20",
        time |-> "9:00 AM", participants |-> 31,
        description |-> "Restore Rockaway Beach community event",
        creator |-> "undefined"] >>

\* a seeding that adds the sample events to the ones in the store
loadMockDataAppends(store) ==
    [store EXCEPT !.crews = MockCrews, !.events = @ \o MockEvents]

\* 813-856 loadMockData: the two assignments to appState.crews and
\* appState.events; store is [crews, events]
loadMockData(store) ==
    [store EXCEPT !.crews = MockCrews, !.events = MockEvents]

\* ------------------------------------------------------------------ helpers
SeqToBag(s) ==
    LET F[i \in 0..Len(s)] ==
            IF i = 0 THEN EmptyBag ELSE F[i - 1] (+) SetToBag({s[i]})
    IN F[Len(s)]

\* a lookup that falls back to the first event when the id is unknown
FindIndexOrFirst(evs, eventId) ==
    IF \E i \in 1..Len(evs) : evs[i].id = eventId
    THEN CHOOSE i \in 1..Len(evs) :
            /\ evs[i].id = eventId
            /\ \A j \in 1..(i - 1) : evs[j].id # eventId
    ELSE IF Len(evs) > 0 THEN 1 ELSE 0

\* Array.prototype.find: the first element whose id is eventId, as an index
\* (0 when there is none)
FindIndex(evs, eventId) ==
    IF \E i \in 1..Len(evs) : evs[i].id = eventId
    THEN CHOOSE i \in 1..Len(evs) :
            /\ evs[i].id = eventId
            /\ \A j \in 1..(i - 1) : evs[j].id # eventId
    ELSE 0

\* what the user sees of a handler: the alert it raised, whether it ended in
\* an uncaught exception, how many times it called renderEvents, and what
\* it announced to assistive technology (NULL: nothing)
Outcome(op, notice, threw, renders) ==
    [op |-> op, notice |-> notice, threw |-> threw, renders |-> renders,
     announced |-> NULL]

\* 989-999 announceToScreenReader: the handler with this outcome also put
\* the message into an aria-live region
Announcing(outcome, message) ==
    [outcome EXCEPT !.announced = Some(message)]

\* ------------------------------------------------------- 567-595 addBeachMarker
\* The marker with its bound popup: name, date, participants and the id the
\* popup's Join button passes to joinEvent.
BeachMarker(lat, lng, name, eventData) ==
    [lat |-> lat, lng |-> lng, title |-> name, date |-> eventData.date,
     participants |-> eventData.participants, joinId |-> eventData.id]

\* st is [map, layers, markers, threw]: L.marker(..).addTo(appState.map)
\* throws when there is no map (or no Leaflet), before the push.
addBeachMarker(st, lat, lng, name, eventData) ==
    IF st.threw THEN st
    ELSE IF st.map = NULL THEN [st EXCEPT !.threw = TRUE]
    ELSE LET m == BeachMarker(lat, lng, name, eventData)
         IN [st EXCEPT !.layers = @ (+) SetToBag({m}),
                       !.markers = Append(@, m)]

\* ---------------------------------------------------------- 858-879 renderCrew
SumOf(cs, field) ==
    LET F[i \in 0..Len(cs)] ==
            IF i = 0 THEN 0 ELSE F[i - 1] + cs[i][field]
    IN F[Len(cs)]

renderCrew(cs) ==
    [crewList |-> [i \in 1..Len(cs) |->
                      [avatar |-> cs[i].avatar, name |-> cs[i].name,
                       cleanups |-> cs[i].cleanups]],
     totalCrew |-> Len(cs),
     cleanupCount |-> SumOf(cs, "cleanups"),
     itemsCollected |-> SumOf(cs, "itemsCollected")]

\* ------------------------------------------------------- 885-913 renderEvents
EventCard(event) ==
    [date |-> event.date, name |-> event.name,
     participants |-> event.participants, time |-> event.time,
     description |-> event.description, joinId |-> event.id]

EventCards(evs) == [i \in 1..Len(evs) |-> EventCard(evs[i])]

\* a refresh that takes the markers off the map and keeps the array
ClearMarkersKeepArray(st) ==
    IF st.threw THEN st
    ELSE IF st.markers = <<>> THEN st
    ELSE IF st.map = NULL THEN [st EXCEPT !.threw = TRUE]
    ELSE [st EXCEPT !.layers = @ (-) SeqToBag(st.markers)]

\* a refresh that empties the array and leaves the markers on the map
ClearMarkersKeepLayers(st) ==
    IF st.threw THEN st ELSE [st EXCEPT !.markers = <<>>]

\* 907-908: remove every marker of appState.markers from the map, then
\* forget them; removeLayer on a missing map throws at the first marker
ClearMarkers(st) ==
    IF st.threw THEN st
    ELSE IF st.markers = <<>> THEN st
    ELSE IF st.map = NULL THEN [st EXCEPT !.threw = TRUE]
    ELSE [st EXCEPT !.layers = @ (-) SeqToBag(st.markers), !.markers = <<>>]

\* 910-912
AddAllMarkers(st, evs) ==
    LET F[i \in 0..Len(evs)] ==
            IF i = 0 THEN st
            ELSE addBeachMarker(F[i - 1], evs[i].lat, evs[i].lng,
                                evs[i].name, evs[i])
    IN F[Len(evs)]

\* st is [map, layers, markers, eventsList, threw]
renderEvents(st, evs) ==
    IF st.threw THEN st
    ELSE AddAllMarkers(ClearMarkers([st EXCEPT !.eventsList = EventCards(evs)]),
                       evs)

\* the part of the state renderEvents works on
Screen == [map |-> map, layers |-> layers, markers |-> markers,
           eventsList |-> eventsList, threw |-> FALSE]

SetScreen(st) ==
    /\ map' = st.map
    /\ layers' = st.layers
    /\ markers' = st.markers
    /\ eventsList' = st.eventsList

\* ------------------------------------------------------- 551-565 initializeMap
\* L.map('map').setView(defaultLocation, 12): the new map, or an exception
\* (Leaflet blocked or unavailable) that leaves appState.map as it was
initializeMap(leafletOk) ==
    IF leafletOk THEN Some([center |-> defaultLocation]) ELSE NULL

\* 497-511: the static view is centred on the first event of the store at
\* the time it is built, else on Pasir Ris; `x || y` takes y for a falsy x
FallbackView(evs) ==
    LET dflt == [lat |-> 1381497, lng |-> 103955574, label |-> "Pasir Ris"]
    IN IF Len(evs) > 0
       THEN <<"fallback",
              IF evs[1].lat = 0 THEN dflt.lat ELSE evs[1].lat,
              IF evs[1].lng = 0 THEN dflt.lng ELSE evs[1].lng,
              IF evs[1].name = "" THEN dflt.label ELSE evs[1].name,
              "retryMapBtn">>
       ELSE <<"fallback", dflt.lat, dflt.lng, dflt.label, "retryMapBtn">>

\* the part of appState loadMockData works on
Store == [crews |-> crews, events |-> events]

\* ------------------------------------------------------------------- Init
\* the script has run (457-465) and the document is still loading
Init ==
    /\ pc = "loading"
    /\ map = NULL
    /\ layers = EmptyBag
    /\ userLayers = EmptyBag
    /\ mapEl = <<>>
    /\ userLocation = NULL
    /\ userMarker = NULL
    /\ crews = <<>>
    /\ events = <<>>
    /\ markers = <<>>
    /\ eventsList = <<>>
    /\ wpc = "idle"
    /\ weatherInfo = <<>>
    /\ forecastInfo = <<>>
    /\ waterInfo = <<>>
    /\ geolocation \in BOOLEAN
    /\ geoPending = 0
    /\ now = 1000   \* the first of ClockValues
    /\ crewSection = NULL
    /\ nextCleanupParticipants = 0
    /\ last = Outcome("script", "none", FALSE, 0)

\* ------------------------------------------------- 471-545 DOMContentLoaded
\* initializeMap (or the fallback view), loadMockData, loadWeather up to its
\* first await, renderCrew, renderEvents.  An exception of renderEvents leaves the
\* handler uncaught.
DOMContentLoaded(leafletOk) ==
    /\ pc = "loading"
    /\ pc' = "ready"
    /\ mapEl' = IF leafletOk THEN <<"leaflet">> ELSE FallbackView(events)
    /\ wpc' = "fetch"
    /\ LET seeded == loadMockData(Store)
           st == renderEvents([Screen EXCEPT !.map = initializeMap(leafletOk)],
                              seeded.events)
       IN /\ crews' = seeded.crews
          /\ events' = seeded.events
          /\ crewSection' = Some(renderCrew(seeded.crews))
          /\ SetScreen(st)
          /\ last' = Outcome("DOMContentLoaded", "none", st.threw, 1)
    /\ UNCHANGED <<userLayers, userLocation, userMarker, weatherInfo,
                   forecastInfo, waterInfo, geolocation, geoPending, now,
                   nextCleanupParticipants>>

\* ------------------------------------------------- 527-530 retryMapBtn click
\* only while the button is in the document; the handler empties #map, and
\* catches whatever initializeMap or renderEvents throws
RetryMap(leafletOk) ==
    /\ pc = "ready"
    /\ Len(mapEl) = 5 /\ mapEl[5] = "retryMapBtn"
    /\ mapEl' = IF leafletOk THEN <<"leaflet">> ELSE <<>>
    /\ IF leafletOk
       THEN LET st == renderEvents([Screen EXCEPT !.map = initializeMap(TRUE)],
                                   events)
            IN /\ SetScreen(st)
               /\ last' = Outcome("retryMap", "none", FALSE, 1)
       ELSE /\ UNCHANGED <<map, layers, markers, eventsList>>
            /\ last' = Outcome("retryMap", "none", FALSE, 0)
    /\ UNCHANGED <<pc, asideVars, userLayers, userLocation, userMarker, crews, events,
                   weatherVars, geolocation, geoPending, now>>

\* ---------------------------------------------------------- 915-922 joinEvent
InitialParticipants(ev) ==
    IF \E i \in 1..Len(MockEvents) : MockEvents[i].id = ev.id
    THEN MockEvents[CHOOSE i \in 1..Len(MockEvents) :
                        MockEvents[i].id = ev.id].participants
    ELSE 1

\* joins made so far, which the model bounds by MaxJoins
JoinsSoFar ==
    LET F[i \in 0..Len(events)] ==
            IF i = 0 THEN 0
            ELSE F[i - 1] + events[i].participants
                          - InitialParticipants(events[i])
    IN F[Len(events)]

\* a join that counts the participant on every event
JoinedAll(evs, i) ==
    [j \in 1..Len(evs) |-> [evs[j] EXCEPT !.participants = @ + 1]]

\* a join that works as a toggle and takes the participant off again
JoinedLeave(evs, i) == [evs EXCEPT ![i].participants = @ - 1]

\* 918: event.participants += 1 on the event find returned
Joined(evs, i) == [evs EXCEPT ![i].participants = @ + 1]

joinEvent(eventId) ==
    /\ pc = "ready"
    /\ LET i == FindIndex(events, eventId)
       IN IF i # 0
          THEN /\ JoinsSoFar < MaxJoins
               /\ LET evs == Joined(events, i)
                      st == renderEvents(Screen, evs)
                  IN /\ events' = evs
                     /\ SetScreen(st)
                     /\ last' = Outcome("joinEvent",
                                        IF st.threw THEN "none" ELSE "joined",
                                        st.threw, 1)
          ELSE /\ UNCHANGED <<events, map, layers, markers, eventsList>>
               /\ last' = Outcome("joinEvent", "none", FALSE, 0)
    /\ UNCHANGED <<pc, asideVars, userLayers, mapEl, userLocation, userMarker, crews,
                   weatherVars, geolocation, geoPending, now>>

\* ----------------------------------------------------- 924-929 joinNextCleanup
\* the counter, the #nextCleanupParticipants text that repeats it, the alert
\* and the announcement
joinNextCleanup ==
    /\ pc = "ready"
    /\ nextCleanupParticipants < MaxCleanupJoins
    /\ nextCleanupParticipants' = nextCleanupParticipants + 1
    /\ last' = Announcing(Outcome("joinNextCleanup", "joined-next-cleanup",
                                  FALSE, 0),
                          <<"joined-next-cleanup",
                            nextCleanupParticipants + 1>>)
    /\ UNCHANGED <<pc, crewSection, mapVars, storeVars, eventsList,
                   weatherVars, geolocation, geoPending, now>>

\* ------------------------------------------------- 629-653 createEventMarker
\* prompt() gives the text typed, "" for an empty answer, null for Cancel
PromptCancelled == NULL

\* a check that only notices Cancel
FalsyNullOnly(answer) == answer = PromptCancelled

\* 631, 634: !beachName, !eventDate
Falsy(answer) == answer = PromptCancelled \/ answer = <<"">>

NewEvent(beachName, eventDate, mapCenter, clock) ==
    [id |-> EventId(clock), name |-> beachName, lat |-> mapCenter.lat,
     lng |-> mapCenter.lng, date |-> eventDate, time |-> "undefined",
     participants |-> 1, description |-> "undefined", creator |-> "You"]

PromptAnswers(text) == {PromptCancelled, <<text>>, <<"">>}
NameAnswers == PromptAnswers("East Coast Park")
DateAnswers == PromptAnswers("2026-01-10")

\* what one run of createEventMarker takes from outside: the second prompt
\* is only shown after a non-empty first answer, and Date.now() is only read
\* after two non-empty answers (an input that is not taken is written as
\* Cancel, or as the latest reading)
InputsTaken(nameAnswer, dateAnswer, clock) ==
    /\ Falsy(nameAnswer) => dateAnswer = PromptCancelled
    /\ (Falsy(nameAnswer) \/ Falsy(dateAnswer)) => clock = now

\* clock is what Date.now() returns if the handler gets to line 639: the
\* wall clock does not run backwards, and it need not have moved on since
\* the last reading
createEventMarker(nameAnswer, dateAnswer, clock) ==
    /\ pc = "ready"
    /\ clock >= now
    /\ InputsTaken(nameAnswer, dateAnswer, clock)
    /\ IF Falsy(nameAnswer) \/ Falsy(dateAnswer)
       THEN /\ UNCHANGED <<events, map, layers, markers, eventsList, now>>
            /\ last' = Outcome("createEventMarker",
                               "none", FALSE, 0)
       ELSE IF map = NULL
       THEN \* 636: appState.map.getCenter() on null
            /\ UNCHANGED <<events, map, layers, markers, eventsList, now>>
            /\ last' = Outcome("createEventMarker",
                               "none", TRUE, 0)
       ELSE /\ Len(events) < Len(MockEvents) + MaxCreated
            /\ LET newEvent == NewEvent(Val(nameAnswer), Val(dateAnswer),
                                        Val(map).center, clock)
                   evs == Append(events, newEvent)
                   st == renderEvents(
                             addBeachMarker(Screen, newEvent.lat, newEvent.lng,
                                            newEvent.name, newEvent), evs)
               IN /\ events' = evs
                  /\ now' = clock
                  /\ SetScreen(st)
                  /\ last' = Outcome("createEventMarker",
                                     IF st.threw THEN "none" ELSE "created",
                                     st.threw, 1)
    /\ UNCHANGED <<pc, asideVars, userLayers, mapEl, userLocation, userMarker, crews,
                   weatherVars, geolocation, geoPending>>

\* --------------------------------------------------- 597-627 userLocation
userLocationClick ==
    /\ pc = "ready"
    /\ IF geolocation
       THEN /\ geoPending < MaxPending
            /\ geoPending' = geoPending + 1
            /\ last' = Outcome("userLocation", "none", FALSE, 0)
       ELSE /\ UNCHANGED geoPending
            /\ last' = Outcome("userLocation", "geolocation-unsupported",
                               FALSE, 0)
    /\ UNCHANGED <<pc, asideVars, mapVars, storeVars, eventsList, weatherVars,
                   geolocation, now>>

\* 600-618: the success callback; without a map L.marker(..).addTo(null)
\* throws after appState.userLocation was written
geoSuccess(position) ==
    /\ pc = "ready"
    /\ geoPending > 0
    /\ geoPending' = geoPending - 1
    /\ userLocation' = Some(position)
    /\ IF map = NULL
       THEN /\ UNCHANGED <<map, userLayers, userMarker>>
            /\ last' = Outcome("geoSuccess", "none", TRUE, 0)
       ELSE /\ userMarker' = Some(position)
            /\ userLayers' =
                  ((IF userMarker # NULL
                    THEN userLayers (-) SetToBag({Val(userMarker)})
                    ELSE userLayers) (+) SetToBag({position}))
            /\ map' = Some([Val(map) EXCEPT !.center = position])
            /\ last' = Outcome("geoSuccess", "none", FALSE, 0)
    /\ UNCHANGED <<pc, asideVars, layers, mapEl, crews, events, markers, eventsList,
                   weatherVars, geolocation, now>>

\* an error callback that also forgets the last known position
geoErrorForgetsLocation ==
    /\ pc = "ready"
    /\ geoPending > 0
    /\ geoPending' = geoPending - 1
    /\ userLocation' = NULL
    /\ last' = Outcome("geoError", "location-unavailable", FALSE, 0)
    /\ UNCHANGED <<pc, asideVars, mapVars, userMarker, crews, events, markers,
                   eventsList, weatherVars, geolocation, now>>

\* 619-622: the error callback
geoError ==
    /\ pc = "ready"
    /\ geoPending > 0
    /\ geoPending' = geoPending - 1
    /\ last' = Outcome("geoError", "location-unavailable", FALSE, 0)
    /\ UNCHANGED <<pc, asideVars, mapVars, storeVars, eventsList, weatherVars,
                   geolocation, now>>

\* a standalone call of the global renderEvents
renderEventsCall ==
    /\ pc = "ready"
    /\ LET st == renderEvents(Screen, events)
       IN /\ SetScreen(st)
          /\ last' = Outcome("renderEvents", "none", st.threw, 1)
    /\ UNCHANGED <<pc, asideVars, userLayers, mapEl, userLocation, userMarker, crews,
                   events, weatherVars, geolocation, geoPending, now>>

\* a standalone call of the global loadMockData (no render follows it)
loadMockDataCall ==
    /\ pc = "ready"
    /\ LET seeded == loadMockData(Store)
       IN /\ crews' = seeded.crews
          /\ events' = seeded.events
    /\ last' = Outcome("loadMockData", "none", FALSE, 0)
    /\ UNCHANGED <<pc, asideVars, mapVars, userLocation, userMarker, markers,
                   eventsList, weatherVars, geolocation, geoPending, now>>

\* ------------------------------------------------------------ weather data
\* One entry of items[0].forecasts (the shape of section 6 of the API);
\* temperature, wind/wind.speed and relative_humidity are objects that may
\* be missing, forecast is a string that may be missing.
ForecastEntry(text, temperature, wind, humidity) ==
    [date |-> 0, forecast |-> text, temperature |-> temperature,
     wind |-> wind, relative_humidity |-> humidity]

GoodEntry(windLow, windHigh) ==
    ForecastEntry("Thundery showers", Some([high |-> 31, low |-> 24]),
                  Some([direction |-> "NE", low |-> windLow,
                        high |-> windHigh]),
                  Some([low |-> 60, high |-> 95]))

NoTemperature == [GoodEntry(10, 15) EXCEPT !.temperature = NULL]
NoWind == [GoodEntry(10, 15) EXCEPT !.wind = NULL]
NoHumidity == [GoodEntry(10, 15) EXCEPT !.relative_humidity = NULL]
NoText == [GoodEntry(10, 15) EXCEPT !.forecast = "undefined"]

\* entries whose rendering dereferences a missing object
ThrowingEntries == {NoTemperature, NoWind, NoHumidity}

FirstEntries ==
    {GoodEntry(8, 20), GoodEntry(10, 15), GoodEntry(12, 20), NoText}
        \cup ThrowingEntries

\* n well-formed entries for n consecutive days
AllGood(n) == [i \in 1..n |-> [GoodEntry(10, 15) EXCEPT !.date = i]]

ForecastLists ==
    {AllGood(n) : n \in 0..MaxForecasts}
        \cup {<<e>> : e \in FirstEntries}
        \cup {[AllGood(MaxForecasts) EXCEPT ![k] = e] :
                 k \in 1..MaxForecasts, e \in ThrowingEntries}

\* the bodies response.json() can resolve to
Payloads ==
    {[items |-> NULL], [items |-> Some(<<>>)],
     [items |-> Some(<<[forecasts |-> NULL]>>)]}
        \cup {[items |-> Some(<<[forecasts |-> Some(fs)]>>)] :
                 fs \in ForecastLists}

Responses == {"network-error", "not-ok", "ok"}

\* ------------------------------------------------ 748-807 loadWeatherFallback
LiveIndicator == "Live NEA Data"
DemoIndicator == "Using demo data (API unavailable)"

forecastConditions == <<"Sunny", "Partly Cloudy", "Cloudy", "Rainy">>

\* 756-766: day i after today, i = 0..3
FallbackDay(i) ==
    [day |-> <<"today+", i>>, text |-> forecastConditions[(i % 4) + 1],
     wind |-> NULL, high |-> 24 - i, low |-> 18 + i, humidity |-> NULL]

\* a fallback that leaves a current-conditions panel that is already filled
loadWeatherFallbackKeepsCurrent(panels) ==
    [panels EXCEPT
        !.weatherInfo = IF @ # NULL THEN @
                        ELSE Some([temp |-> FallbackCurrentTemp,
                                   text |-> "Typical conditions for Singapore",
                                   indicator |-> DemoIndicator]),
        !.forecastInfo = [i \in 1..ForecastDays |-> FallbackDay(i - 1)],
        !.waterInfo = Some([temp |-> FallbackWaterTemp,
                            wave |-> "0.5 - 1.0 m", wind |-> NULL,
                            current |-> "Moderate"])]

loadWeatherFallback(panels) ==
    [panels EXCEPT
        !.weatherInfo = Some([temp |-> FallbackCurrentTemp,
                              text |-> "Typical conditions for Singapore",
                              indicator |-> DemoIndicator]),
        !.forecastInfo = [i \in 1..ForecastDays |-> FallbackDay(i - 1)],
        !.waterInfo = Some([temp |-> FallbackWaterTemp,
                            wave |-> "0.5 - 1.0 m", wind |-> NULL,
                            current |-> "Moderate"])]

\* ------------------------------------------------------- 659-746 loadWeather
\* Math.round((high + low) / 2) on integers: halves round up
RoundedMidpoint(temperature) == (temperature.high + temperature.low + 1) \div 2

\* a threshold that includes its bound
WaveHeightAtLeast(windLow) ==
    IF windLow >= WindThreshold THEN "1.0-1.5m" ELSE "0.5-1.0m"

\* 730
WaveHeight(windLow) ==
    IF windLow > WindThreshold THEN "1.0-1.5m" ELSE "0.5-1.0m"

Min(a, b) == IF a < b THEN a ELSE b

\* a forecast list without the cap
SliceAll(forecasts) == forecasts

\* 694: forecasts.slice(0, 4)
Slice4(forecasts) == SubSeq(forecasts, 1, Min(ForecastDays, Len(forecasts)))

\* 700-720: the template reads f.wind.speed, f.temperature and
\* f.relative_humidity of the entry
EntryThrows(f) ==
    f.wind = NULL \/ f.temperature = NULL \/ f.relative_humidity = NULL

ForecastRow(f) ==
    [day |-> <<"date", f.date>>, text |-> f.forecast,
     wind |-> <<Val(f.wind).low, Val(f.wind).high>>,
     high |-> Val(f.temperature).high, low |-> Val(f.temperature).low,
     humidity |-> <<Val(f.relative_humidity).low,
                    Val(f.relative_humidity).high>>]

\* 674-737, the body of the try block on the parsed data: the panels as far
\* as they were written, and whether an exception ended the block
RenderLive(panels, data) ==
    IF data.items = NULL \/ Val(data.items) = <<>>
    THEN [panels |-> panels, threw |-> TRUE]                      \* 740
    ELSE
    LET item == Val(data.items)[1]
        forecasts == IF item.forecasts = NULL THEN <<>>
                     ELSE Val(item.forecasts)                     \* 675
    IN IF forecasts = <<>> \/ forecasts[1].temperature = NULL
       THEN [panels |-> panels, threw |-> TRUE]                   \* 679
       ELSE
       LET currentForecast == forecasts[1]
           currentTemp == RoundedMidpoint(Val(currentForecast.temperature))
           p1 == [panels EXCEPT !.weatherInfo =
                     Some([temp |-> currentTemp,
                           text |-> currentForecast.forecast,
                           indicator |-> LiveIndicator])]         \* 682
           shown == Slice4(forecasts)
       IN IF \E i \in 1..Len(shown) : EntryThrows(shown[i])
          THEN [panels |-> p1, threw |-> TRUE]                    \* 694-721
          ELSE
          LET p2 == [p1 EXCEPT !.forecastInfo =
                        [i \in 1..Len(shown) |-> ForecastRow(shown[i])]]
              wind == Val(currentForecast.wind)
              p3 == [p2 EXCEPT !.waterInfo =
                        Some([temp |-> currentTemp - WaterOffset,
                              wave |-> WaveHeight(wind.low),
                              wind |-> <<wind.direction, wind.low, wind.high>>,
                              current |-> "undefined"])]          \* 726-735
          IN [panels |-> p3, threw |-> FALSE]

Panels == [weatherInfo |-> weatherInfo, forecastInfo |-> forecastInfo,
           waterInfo |-> waterInfo]

SetPanels(panels) ==
    /\ weatherInfo' = panels.weatherInfo
    /\ forecastInfo' = panels.forecastInfo
    /\ waterInfo' = panels.waterInfo

\* 666-670: the fetch settles; a rejection or a non-success status goes to
\* the catch block, a success goes on to await response.json()
fetchSettles(response) ==
    /\ wpc = "fetch"
    /\ IF response = "ok"
       THEN /\ wpc' = "json"
            /\ UNCHANGED <<weatherInfo, forecastInfo, waterInfo>>
       ELSE /\ wpc' = "done"
            /\ SetPanels(loadWeatherFallback(Panels))
    /\ UNCHANGED <<pc, asideVars, mapVars, storeVars, eventsList, geolocation,
                   geoPending, now, last>>

\* 672-745: response.json() settles with the parsed body (NULL: it rejected)
\* and loadWeather runs to its end
jsonSettles(body) ==
    /\ wpc = "json"
    /\ wpc' = "done"
    /\ IF body = NULL
       THEN SetPanels(loadWeatherFallback(Panels))
       ELSE LET r == RenderLive(Panels, Val(body))
            IN SetPanels(IF r.threw THEN loadWeatherFallback(r.panels)
                         ELSE r.panels)
    /\ UNCHANGED <<pc, asideVars, mapVars, storeVars, eventsList, geolocation,
                   geoPending, now, last>>

\* -------------------------------------------------------------------- Next
Positions == {[lat |-> 1300000, lng |-> 103800000],
              [lat |-> 1381497, lng |-> 103955574]}

\* ids a Join button or a caller can pass: the seeded ones, one that was
\* never issued, and those of created events
JoinIds == {EventId(n) : n \in 0..3} \cup {EventId(t) : t \in ClockValues}

Bodies == {NULL} \cup {Some(d) : d \in Payloads}

Next ==
    \/ \E leafletOk \in BOOLEAN : DOMContentLoaded(leafletOk)
    \/ \E leafletOk \in BOOLEAN : RetryMap(leafletOk)
    \/ userLocationClick
    \/ \E position \in Positions : geoSuccess(position)
    \/ geoError
    \/ \E eventId \in JoinIds : joinEvent(eventId)
    \/ \E nameAnswer \in NameAnswers, dateAnswer \in DateAnswers,
          clock \in ClockValues :
            createEventMarker(nameAnswer, dateAnswer, clock)
    \/ renderEventsCall
    \/ joinNextCleanup
    \/ \E response \in Responses : fetchSettles(response)
    \/ \E body \in Bodies : jsonSettles(body)

Spec == Init /\ [][Next]_vars

\* The behaviours of Spec in which the forecast request stays unanswered and
\* the next-cleanup button is not used.
\* The continuations of loadWeather read and write only wpc and the three
\* panels, which no handler reads, so the handlers meet the same states of
\* the store, the map and the event list here as under Spec.
NextStore ==
    \/ \E leafletOk \in BOOLEAN : DOMContentLoaded(leafletOk)
    \/ \E leafletOk \in BOOLEAN : RetryMap(leafletOk)
    \/ userLocationClick
    \/ \E position \in Positions : geoSuccess(position)
    \/ geoError
    \/ \E eventId \in JoinIds : joinEvent(eventId)
    \/ \E nameAnswer \in NameAnswers, dateAnswer \in DateAnswers,
          clock \in ClockValues :
            createEventMarker(nameAnswer, dateAnswer, clock)
    \/ renderEventsCall

StoreSpec == Init /\ [][NextStore]_vars

\* The behaviours of Spec in which nobody joins, creates or re-renders an
\* event: the forecast request against the page load, the locate button and
\* the map retry.
NextWeather ==
    \/ \E leafletOk \in BOOLEAN : DOMContentLoaded(leafletOk)
    \/ \E leafletOk \in BOOLEAN : RetryMap(leafletOk)
    \/ userLocationClick
    \/ \E position \in Positions : geoSuccess(position)
    \/ geoError
    \/ \E response \in Responses : fetchSettles(response)
    \/ \E body \in Bodies : jsonSettles(body)

WeatherSpec == Init /\ [][NextWeather]_vars

\* The page load and the event handlers of StoreSpec that write the store,
\* together with calls of loadMockData later in the session.
NextSeed ==
    \/ \E leafletOk \in BOOLEAN : DOMContentLoaded(leafletOk)
    \/ \E eventId \in JoinIds : joinEvent(eventId)
    \/ \E nameAnswer \in NameAnswers, dateAnswer \in DateAnswers,
          clock \in ClockValues :
            createEventMarker(nameAnswer, dateAnswer, clock)
    \/ loadMockDataCall

SeedSpec == Init /\ [][NextSeed]_vars

\* =================================================================== claims
IdKnown(eventId) == \E i \in 1..Len(events) : events[i].id = eventId

\* C1: joinEvent(id) with an id of the store raises the participant count of
\* one event with that id by exactly 1 and changes nothing else in the event
\* collection (no other field, no other event, neither number nor order),
\* for seeded and created events, with or without a map.
C1_JoinAddsExactlyOne ==
    [][last'.op = "joinEvent" => \A eventId \in JoinIds :
          (IdKnown(eventId) /\ joinEvent(eventId)) =>
              \E i \in 1..Len(events) :
                  /\ events[i].id = eventId
                  /\ Len(events') = Len(events)
                  /\ events'[i].participants = events[i].participants + 1
                  /\ events'[i] = [events[i] EXCEPT
                                      !.participants = events'[i].participants]
                  /\ \A j \in 1..Len(events) : j # i => events'[j] = events[j]
      ]_vars

\* a join of a user-created event has just been made
C1_Witness ==
    /\ last.op = "joinEvent"
    /\ last.renders = 1
    /\ \E i \in 1..Len(events) :
          events[i].creator = "You" /\ events[i].participants = 2

\* C2: joinEvent(id) with an id of no event changes nothing (events, markers
\* on and off the map, user location, user marker, rendered list), renders
\* nothing and shows no notice.
C2_JoinUnknownIsNoOp ==
    [][last'.op = "joinEvent" => \A eventId \in JoinIds :
          (~IdKnown(eventId) /\ joinEvent(eventId)) =>
              /\ UNCHANGED <<events, markers, layers, userLayers, userLocation,
                             userMarker, eventsList, map, mapEl, crews>>
              /\ last'.renders = 0
              /\ last'.notice = "none"
              /\ ~last'.threw
      ]_vars

\* a join has just returned without rendering, in a store that has events
C2_Witness ==
    /\ last.op = "joinEvent"
    /\ last.renders = 0
    /\ Len(events) >= 3

\* C3: the ids of the events in the store are pairwise different.
C3_EventIdsUnique ==
    \A i, j \in 1..Len(events) : i # j => events[i].id # events[j].id

\* C4: an empty or cancelled name, or an empty or cancelled date, ends the
\* create-event handler with the events, the markers and the rendered list
\* as they were.
C4_CreateAbortsUnchanged ==
    [][last'.op = "createEventMarker" =>
       \A nameAnswer \in NameAnswers, dateAnswer \in DateAnswers,
          clock \in ClockValues :
          (/\ \/ nameAnswer \in {NULL, <<"">>}
              \/ dateAnswer \in {NULL, <<"">>}
           /\ createEventMarker(nameAnswer, dateAnswer, clock)) =>
              /\ UNCHANGED <<events, markers, layers, eventsList>>
              /\ last'.renders = 0
              /\ last'.notice = "none"
      ]_vars

\* the create-event handler has just returned without an event, a render or
\* an exception: it stopped at one of the two prompts
C4_Witness ==
    /\ last.op = "createEventMarker"
    /\ last.renders = 0
    /\ ~last.threw
    /\ Len(events) >= 3

\* C5: a create-event action with a non-empty name and date adds exactly one
\* event, last in the collection, with participant count 1, the given name
\* and date and the map's centre; the events before it are unchanged.
C5_CreateAppendsOne ==
    [][last'.op = "createEventMarker" =>
       \A nameAnswer \in NameAnswers, dateAnswer \in DateAnswers,
          clock \in ClockValues :
          (/\ nameAnswer \notin {NULL, <<"">>}
           /\ dateAnswer \notin {NULL, <<"">>}
           /\ createEventMarker(nameAnswer, dateAnswer, clock)) =>
              /\ Len(events') = Len(events) + 1
              /\ SubSeq(events', 1, Len(events)) = events
              /\ events'[Len(events')].participants = 1
              /\ events'[Len(events')].name = nameAnswer[1]
              /\ events'[Len(events')].date = dateAnswer[1]
              /\ events'[Len(events')].lat = map[1].center.lat
              /\ events'[Len(events')].lng = map[1].center.lng
      ]_vars

\* C6: renderEvents twice in a row gives the rendered list, the marker array
\* and the markers on the map that renderEvents once gives.
C6_RenderEventsIdempotent ==
    LET once == renderEvents(Screen, events)
        twice == renderEvents([once EXCEPT !.threw = FALSE], events)
    IN /\ twice.eventsList = once.eventsList
       /\ twice.markers = once.markers
       /\ twice.layers = once.layers
       /\ twice.threw = once.threw

\* renderEvents has just run over a store with a created event and a map
C6_Witness ==
    /\ last.op = "renderEvents"
    /\ map # NULL
    /\ Len(events) > 3
    /\ Len(markers) = Len(events)

\* C7: with a map, after every handler the markers are one per event in
\* collection order, each with the event's position, name, date, current
\* participant count and id, and the map carries exactly these markers.
C7_MarkersMirrorEvents ==
    (pc = "ready" /\ map # NULL) =>
        /\ Len(markers) = Len(events)
        /\ \A i \in 1..Len(events) :
              /\ markers[i].participants = events[i].participants
              /\ markers[i].joinId = events[i].id
              /\ markers[i].title = events[i].name
              /\ markers[i].date = events[i].date
              /\ markers[i].lat = events[i].lat
              /\ markers[i].lng = events[i].lng
        /\ BagCardinality(layers) = Len(events)
        /\ layers = SeqToBag(markers)

\* an event has just been created on the map
C7_Witness ==
    /\ last.op = "createEventMarker"
    /\ last.notice = "created"
    /\ map # NULL
    /\ Len(events) = 4

\* the three panels show the synthetic dataset
ShowsSynthetic ==
    /\ weatherInfo # NULL /\ waterInfo # NULL
    /\ weatherInfo[1].indicator = DemoIndicator
    /\ weatherInfo[1].indicator # LiveIndicator
    /\ Len(forecastInfo) = 4
    /\ \A i \in 1..Len(forecastInfo) : forecastInfo[i].wind = NULL
    /\ waterInfo[1].temp = 20

\* the body lacks items, or forecasts, or one of the entries that are read
\* (the first four) lacks a field the templates read
BodyFails(body) ==
    \/ body = NULL
    \/ body[1].items = NULL
    \/ body[1].items[1] = <<>>
    \/ body[1].items[1][1].forecasts = NULL
    \/ body[1].items[1][1].forecasts[1] = <<>>
    \/ LET fs == body[1].items[1][1].forecasts[1]
       IN \E i \in 1..Len(fs) :
             /\ i <= 4
             /\ \/ fs[i].temperature = NULL
                \/ fs[i].wind = NULL
                \/ fs[i].relative_humidity = NULL
                \/ fs[i].forecast = "undefined"

\* C8: after every failure of the forecast fetch the panels show the
\* synthetic dataset with the demo indicator, without the live indicator,
\* and a water temperature of 20.
C8_FailureShowsSynthetic ==
    [][wpc' # wpc =>
          /\ \A response \in {"network-error", "not-ok"} :
                fetchSettles(response) => ShowsSynthetic'
          /\ \A body \in Bodies :
                (BodyFails(body) /\ jsonSettles(body)) => ShowsSynthetic'
      ]_vars

\* the panels show live data
ShowsLive ==
    /\ wpc = "done"
    /\ weatherInfo # NULL
    /\ weatherInfo[1].indicator = LiveIndicator

\* C9: on live data the wave height is the higher bucket exactly when the
\* low wind speed of the first entry (which the water panel prints) is
\* above 10, and the lower bucket otherwise, 10 included.
C9_WaveBucketByLowWind ==
    ShowsLive =>
        /\ waterInfo # NULL
        /\ waterInfo[1].wind[2] > 10 => waterInfo[1].wave = "1.0-1.5m"
        /\ waterInfo[1].wind[2] <= 10 => waterInfo[1].wave = "0.5-1.0m"

\* live data with a low wind speed of exactly 10
C9_Witness ==
    /\ ShowsLive
    /\ waterInfo[1].wind[2] = 10
    /\ waterInfo[1].wind[3] > 10

\* the forecast entries of a body whose entries are all well-formed
ValidForecasts(body) ==
    IF /\ body # NULL
       /\ body[1].items # NULL
       /\ body[1].items[1] # <<>>
       /\ body[1].items[1][1].forecasts # NULL
       /\ \A i \in 1..Len(body[1].items[1][1].forecasts[1]) :
             LET f == body[1].items[1][1].forecasts[1][i]
             IN /\ f.temperature # NULL
                /\ f.wind # NULL
                /\ f.relative_humidity # NULL
    THEN body[1].items[1][1].forecasts[1]
    ELSE <<>>

\* C10 as stated: every valid payload with at least one entry gives a
\* rendered forecast list of exactly 4 entries.
C10_AlwaysFourEntries ==
    [][wpc' # wpc => \A body \in Bodies :
          (Len(ValidForecasts(body)) >= 1 /\ jsonSettles(body)) =>
              Len(forecastInfo') = 4
      ]_vars

\* C10 as amended: a valid payload with n >= 1 entries gives a rendered
\* forecast list of n entries when n < 4 and of 4 entries otherwise, the
\* payload's first entries in their order, under the live indicator.
C10_AtMostFourEntries ==
    [][wpc' # wpc => \A body \in Bodies :
          (Len(ValidForecasts(body)) >= 1 /\ jsonSettles(body)) =>
              LET fs == ValidForecasts(body)
                  n == Len(fs)
              IN /\ Len(forecastInfo') = IF n < 4 THEN n ELSE 4
                 /\ \A i \in 1..Len(forecastInfo') :
                       /\ forecastInfo'[i].day = <<"date", fs[i].date>>
                       /\ forecastInfo'[i].text = fs[i].forecast
                 /\ weatherInfo'[1].indicator = LiveIndicator
      ]_vars

\* live data with a forecast list of two entries
C10_Witness ==
    /\ ShowsLive
    /\ Len(forecastInfo) = 2

\* C11: a failure of initializeMap degrades only the map.  The page load
\* that meets it still seeds the store, starts the forecast request,
\* renders the crew and the event list; and while there is no map, a join
\* of a listed event counts the participant, re-renders the list, shows
\* the confirmation and ends without an uncaught exception.
C11_MapFailureDegradesOnlyMap ==
    [][/\ (pc = "loading" /\ DOMContentLoaded(FALSE)) =>
              /\ crews' = MockCrews
              /\ events' = MockEvents
              /\ wpc' = "fetch"
              /\ crewSection' = Some(renderCrew(MockCrews))
              /\ eventsList' = EventCards(MockEvents)
       /\ last'.op = "joinEvent" => \A eventId \in JoinIds :
              (map = NULL /\ IdKnown(eventId) /\ joinEvent(eventId)) =>
                  /\ events' = Joined(events, FindIndex(events, eventId))
                  /\ eventsList' = EventCards(events')
                  /\ last'.renders = 1
                  /\ last'.notice = "joined"
                  /\ ~last'.threw
      ]_vars

\* C12: whenever the static fallback view is shown, it is centred on the
\* first event of the store if the store has an event, and on the fixed
\* default coordinate only if the store has none; so after a page load
\* (which seeds three events) it is centred on the first seeded event.
C12_FallbackCentredOnFirstEvent ==
    (Len(mapEl) = 5 /\ mapEl[1] = "fallback") =>
        /\ mapEl = FallbackView(events)
        /\ pc = "ready" => mapEl[4] = MockEvents[1].name

\* C13: a locate request that ends in the error callback, or that finds no
\* geolocation support, leaves the user location, the user marker, the map
\* with its centre, the events and the event markers as they were, and
\* shows a notice.
C13_FailedLocateChangesNothing ==
    [][((geoPending > 0 /\ geoError) \/ (~geolocation /\ userLocationClick)) =>
           /\ UNCHANGED <<userLocation, userMarker, userLayers, map, events,
                          markers, layers, eventsList>>
           /\ last'.notice \in {"location-unavailable",
                                "geolocation-unsupported"}
      ]_vars

\* a request fails after an earlier one had placed the user on the map
C13_Witness ==
    /\ last.op = "geoError"
    /\ userLocation # NULL
    /\ userMarker # NULL
    /\ Val(map).center = Val(userLocation)

\* C14: after every successful geolocation reply, with or without a map and
\* after any earlier requests, the stored user location is the reported
\* position, exactly one user marker is on the map and it is at that
\* position, and the map is centred there; and in every state the stored
\* user location and the user marker agree.
C14_LocationAndMarkerAgree ==
    [][/\ last'.op = "geoSuccess" => \A position \in Positions :
              (geoPending > 0 /\ geoSuccess(position)) =>
                  /\ userLocation' = Some(position)
                  /\ userMarker' = Some(position)
                  /\ BagCardinality(userLayers') = 1
                  /\ BagIn(position, userLayers')
                  /\ map' # NULL
                  /\ Val(map').center = position
                  /\ ~last'.threw
       /\ userLocation' = userMarker'
      ]_vars

\* C15: every successful join of an event (joinEvent with a known id that
\* runs to its end) has, when the handler returns, re-rendered the events
\* and announced the change to assistive technology.
C15_JoinRendersAndAnnounces ==
    [][last'.op = "joinEvent" => \A eventId \in JoinIds :
          (IdKnown(eventId) /\ joinEvent(eventId) /\ ~last'.threw) =>
              /\ last'.renders = 1
              /\ eventsList' = EventCards(events')
              /\ last'.announced # NULL
      ]_vars

\* C16: after seeding, no step of the session (join, create, locate, render,
\* map retry, next-cleanup join, completion of the forecast request)
\* removes or reorders an event or lowers its participant count: the old
\* events stay where they are, each with at least its old count.
C16_EventsOnlyGrow ==
    [][(pc = "ready" /\ events' # events) =>
           /\ Len(events') >= Len(events)
           /\ \A i \in 1..Len(events) :
                 /\ events'[i].id = events[i].id
                 /\ events'[i].participants >= events[i].participants
      ]_vars

\* a session with a created event, a join and the forecast request answered
C16_Witness ==
    /\ Len(events) > Len(MockEvents)
    /\ JoinsSoFar > 0
    /\ wpc = "done"
    /\ userLocation # NULL

\* C17: seeding is an idempotent overwrite.  From any store, after any joins
\* and creations, it leaves the 5 fixed crew members and exactly the events
\* event-1, event-2, event-3 with 24, 18 and 31 participants; and seeding
\* the seeded store again gives the same store.
C17_SeedIsIdempotentOverwrite ==
    [][last'.op = "loadMockData" =>
          (loadMockDataCall =>
              /\ Len(crews') = 5
              /\ crews' = MockCrews
              /\ [i \in 1..Len(events') |-> events'[i].id]
                    = <<EventId(1), EventId(2), EventId(3)>>
              /\ [i \in 1..Len(events') |-> events'[i].participants]
                    = <<24, 18, 31>>
              /\ events' = MockEvents
              /\ loadMockData(loadMockData(Store)) = loadMockData(Store)
              /\ loadMockData(Store) = [crews |-> crews', events |-> events'])
      ]_vars

\* the store is seeded again after an event was created and one was joined:
\* the map still carries the markers of the discarded store
C17_Witness ==
    /\ last.op = "loadMockData"
    /\ events = MockEvents
    /\ Len(markers) > Len(MockEvents)
    /\ \E i \in 1..Len(markers) :
          markers[i].participants > InitialParticipants([id |-> markers[i].joinId])

\* C18: every event of the store, seeded or created, has a value for every
\* field of the CleanupEvent record, so that no card of the rendered event
\* list shows an undefined time or description.  (id, lat, lng and the
\* participant count are set by every object literal of the code; the
\* fields a literal can leave out read "undefined".)
C18_EveryEventHasAllFields ==
    /\ \A i \in 1..Len(events) :
          /\ events[i].name # "undefined"
          /\ events[i].date # "undefined"
          /\ events[i].time # "undefined"
          /\ events[i].description # "undefined"
    /\ \A i \in 1..Len(eventsList) :
          /\ eventsList[i].time # "undefined"
          /\ eventsList[i].description # "undefined"

\* no panel was written yet
PanelsUntouched ==
    weatherInfo = NULL /\ forecastInfo = <<>> /\ waterInfo = NULL

\* all three panels come from the payload
PanelsAllLive ==
    /\ weatherInfo # NULL /\ waterInfo # NULL
    /\ Val(weatherInfo).indicator = LiveIndicator
    /\ Len(forecastInfo) >= 1
    /\ \A i \in 1..Len(forecastInfo) : forecastInfo[i].day[1] = "date"
    /\ Val(waterInfo).wind # NULL
    /\ Val(waterInfo).temp = Val(weatherInfo).temp - WaterOffset

\* all three panels come from the synthetic dataset
PanelsAllSynthetic ==
    /\ weatherInfo # NULL /\ waterInfo # NULL
    /\ Val(weatherInfo).indicator = DemoIndicator
    /\ Len(forecastInfo) = ForecastDays
    /\ \A i \in 1..Len(forecastInfo) : forecastInfo[i].day[1] = "today+"
    /\ Val(waterInfo).wind = NULL
    /\ Val(waterInfo).current = "Moderate"

\* C19: in every state a handler can run in, the three weather panels are
\* from one source: untouched while the request is under way, and afterwards
\* all live or all synthetic (never the live indicator next to a synthetic
\* forecast or water panel, also for a payload that fails part-way through
\* rendering); and the steps that complete the forecast request change no
\* field of appState.
C19_PanelsFromOneSource ==
    /\ [](/\ wpc # "done" => PanelsUntouched
          /\ wpc = "done" => (PanelsAllLive \/ PanelsAllSynthetic))
    /\ [][(wpc \in {"fetch", "json"} /\ wpc' # wpc) =>
             UNCHANGED <<map, userLocation, crews, events, markers,
                         userMarker, nextCleanupParticipants>>
         ]_vars

\* the forecast request ended on the synthetic dataset in a session in which
\* an event was created, one was joined and the user was located
C19_Witness ==
    /\ wpc = "done"
    /\ PanelsAllSynthetic
    /\ Len(events) > Len(MockEvents)
    /\ JoinsSoFar > 0
    /\ userMarker # NULL

\* C20: after a page load on which initializeMap failed, in every state in
\* which there is still no map (also after retries that failed) the static
\* fallback view with its retry button is in the #map element; and a retry
\* that succeeds leaves a map with one marker per event of the store.
C20_FallbackStaysUntilMapWorks ==
    /\ []((pc = "ready" /\ map = NULL) =>
             /\ Len(mapEl) = 5
             /\ mapEl[1] = "fallback"
             /\ mapEl[5] = "retryMapBtn")
    /\ [][last'.op = "retryMap" =>
             ((map = NULL /\ RetryMap(TRUE)) =>
                 /\ map' # NULL
                 /\ Len(markers') = Len(events')
                 /\ layers' = SeqToBag(markers')
                 /\ \A i \in 1..Len(markers') :
                       markers'[i].joinId = events'[i].id)
         ]_vars
====
